---- MODULE Spec2Model ----
(***************************************************************************)
(* StravaDataConnector (garmin_mod/dataConnector.py) and the retry_request *)
(* decorator (garmin_mod/decorFunc.py) as a state machine.                 *)
(*                                                                         *)
(* The session is single threaded: a public operation runs on a call stack *)
(* of frames (the decorator's inside_func together with the fetch_* body   *)
(* it wraps, and getLastID), the remote service and the token endpoint     *)
(* are the environment and answer every request nondeterministically.      *)
(* No code of the repository catches an exception, so a raised exception   *)
(* unwinds the whole stack and fails the public operation.                 *)
(***************************************************************************)
EXTENDS Integers, Sequences, FiniteSets, TLC

VARIABLES
    token,            \* self._access_token
    config_parameters, \* self.config_parameters: the credentials read_configs returned
    defaultActivity,  \* self.defaultActivity: id, name, startDateTime
    stack,            \* call stack of the running public operation, top last
    status,           \* "idle", "running", "done" (returned), "failed" (raised)
    ret,              \* value returned by the last public operation
    call,             \* the public operation running / last run, with its arguments
    validTok,         \* remote service: the access token it currently accepts
    trace,            \* history: requests, token exchanges, getLastID calls of this operation
    token0,           \* history: token when the public operation was called
    default0,         \* history: defaultActivity when the public operation was called
    glPre,            \* history: defaultActivity when the last getLastID was entered
    glFirst,          \* history: the first record of the list the last getLastID parsed, if any
    raisedBy,         \* history: what raised, "none" if nothing did
    honest,           \* history: the environment behaved as an honest server so far
    lastResp          \* history: the last response the remote service gave to a GET

vars == <<token, config_parameters, defaultActivity, stack, status, ret, call, validTok, trace,
          token0, default0, glPre, glFirst, raisedBy, honest, lastResp>>

-----------------------------------------------------------------------------
(* Bounds of the model and program constants *)

MaxId  == 2     \* the remote service issues activity identifiers 1..MaxId
MaxLen == 2     \* an activities list holds at most MaxLen records

retry_count == 3    \* @retry_request(retry_count=3, errorCallback='authenticate')

-----------------------------------------------------------------------------
(* Values *)

\* Python None, and a value that is not None
None == <<>>
Some(v) == <<v>>

\* access tokens the token endpoint issues
Tokens == {"tokenA", "tokenB"}
\* activity identifiers of the remote service are positive
RecIds == 1..MaxId
\* act_id as a caller may pass it: None, 0, or an identifier
CallerIds == {None} \cup {Some(n) : n \in 0..MaxId}

\* one record of the JSON list /athlete/activities answers with
Rec(n) == [id |-> n, name |-> <<"name", n>>, start_date_local |-> <<"start", n>>,
           type |-> <<"type", n>>]
\* a record the service sends without its type
Untyped(n) == [k \in DOMAIN Rec(n) \ {"type"} |-> Rec(n)[k]]
Records == {Rec(n) : n \in RecIds} \cup {Untyped(1)}
Lists == UNION {[1..n -> Records] : n \in 0..MaxLen}

Statuses == {200, 401, 404, 500}

Resp(s, k, items) == [status |-> s, kind |-> k, items |-> items]
NoResp == Resp(0, "none", <<>>)

\* the responses the remote service can give to GET on an endpoint: the
\* activities list answers 200 with a JSON list, every error with a JSON object
ServerResponses(op) ==
    IF op = "activities"
    THEN {Resp(200, "list", l) : l \in Lists}
         \cup {Resp(s, "dict", <<>>) : s \in Statuses \ {200}}
    ELSE {Resp(s, "dict", <<>>) : s \in Statuses}

\* the responses of the token endpoint: a token, a 200 body without the field,
\* a non-2xx error body
TokenResponses ==
    {[status |-> 200, field |-> Some(t)] : t \in Tokens}
    \cup {[status |-> 200, field |-> None], [status |-> 400, field |-> None]}

\* what read_configs returns for the section StravaCredentials
Credentials ==
    {[client_id |-> "id", client_secret |-> "secret", refresh_token |-> "refresh"]}

FetchOps == {"athlete", "activities", "activity", "stream", "segmentsStarred", "segments"}
IdOps == {"activity", "stream", "segments"}

NoneTriple == [id |-> None, name |-> None, startDateTime |-> None]
Triple(r) == [id |-> Some(r.id), name |-> Some(r.name),
              startDateTime |-> Some(r.start_date_local)]

NoRet == [resp |-> NoResp, id |-> None, rows |-> <<>>]

-----------------------------------------------------------------------------
(* Pure helpers of the code *)

\* `if not act_id` / `if self.defaultActivity['id']`: Python truth of an
\* optional integer
Truthy(x) == x # None /\ x[1] # 0

\* headers built once, from the token the operation was called with
headers_Cached == [Authorization |-> <<"Bearer", token0>>, Connection |-> "close"]

\* the headers property: the bearer value is the session's current token
headers == [Authorization |-> <<"Bearer", token>>, Connection |-> "close"]

\* mod_url of a fetch operation
mod_url(op, act) == [path |-> op, id |-> IF op \in IdOps THEN act ELSE None]

\* data[0] succeeds: data is a list and is not empty
Subscriptable(data) == data.kind = "list" /\ Len(data.items) > 0

\* response.json().get('access_token')
AccessTokenOf(r) == r.field

-----------------------------------------------------------------------------
(* Frames *)

RetryFrame(op, aid) ==
    [kind |-> "retry", op |-> op, act_id |-> aid, pc |-> "iter", i |-> 1,
     result |-> NoResp, act |-> None, sd |-> FALSE, data |-> NoResp,
     nCall |-> 0, n401 |-> 0, nAuth |-> 0]

GLFrame(sd) ==
    [kind |-> "getLastID", op |-> "getLastID", act_id |-> None, pc |-> "fetch", i |-> 0,
     result |-> NoResp, act |-> None, sd |-> sd, data |-> NoResp,
     nCall |-> 0, n401 |-> 0, nAuth |-> 0]

Depth == Len(stack)
Top == stack[Depth]
Running == status = "running" /\ Depth > 0
SetTop(f) == [stack EXCEPT ![Depth] = f]
Push(f, g) == Append(SetTop(f), g)

Event(ev, op, id, bearer, st) ==
    [ev |-> ev, op |-> op, id |-> id, bearer |-> bearer, status |-> st, depth |-> Depth]

\* an uncaught exception: the whole stack unwinds, the public operation fails
Raise(who) ==
    /\ stack' = <<>>
    /\ status' = "failed"
    /\ ret' = NoRet
    /\ raisedBy' = who

\* `return v` of the top frame: to the frame below, or to the caller
ReturnResp(r) ==
    IF Depth = 1
    THEN /\ stack' = <<>>
         /\ status' = "done"
         /\ ret' = [resp |-> r, id |-> None, rows |-> <<>>]
    ELSE /\ stack' = [SubSeq(stack, 1, Depth - 1) EXCEPT
                        ![Depth - 1] = [@ EXCEPT !.data = r,
                           !.pc = IF stack[Depth - 1].kind = "get_data"
                                  THEN "ret" ELSE "json"]]
         /\ UNCHANGED <<status, ret>>

ReturnId(n) ==
    IF Depth = 1
    THEN /\ stack' = <<>>
         /\ status' = "done"
         /\ ret' = [resp |-> NoResp, id |-> n, rows |-> <<>>]
    ELSE /\ stack' = [SubSeq(stack, 1, Depth - 1) EXCEPT
                        ![Depth - 1] = [@ EXCEPT !.act = n, !.pc = "get"]]
         /\ UNCHANGED <<status, ret>>

-----------------------------------------------------------------------------
(* The initial state: StravaDataConnector.__init__ *)

Init ==
    /\ token \in {None} \cup {Some(t) : t \in Tokens}
    /\ config_parameters \in Credentials
    /\ defaultActivity = NoneTriple
    /\ stack = <<>>
    /\ status = "idle"
    /\ ret = NoRet
    /\ call = [op |-> "none", act_id |-> None, sd |-> FALSE]
    /\ validTok \in Tokens
    /\ trace = <<>>
    /\ token0 = token
    /\ default0 = defaultActivity
    /\ glPre = defaultActivity
    /\ glFirst = None
    /\ raisedBy = "none"
    /\ honest = TRUE
    /\ lastResp = NoResp

\* a public operation is called: the session is between two operations; the
\* operation sets its call, its first frame and the start of its history
Begin ==
    /\ status = "idle"
    /\ status' = "running"
    /\ ret' = NoRet
    /\ token0' = token
    /\ default0' = defaultActivity
    /\ glPre' = defaultActivity
    /\ glFirst' = None
    /\ raisedBy' = "none"
    /\ honest' = TRUE
    /\ lastResp' = NoResp
    /\ UNCHANGED <<token, defaultActivity, validTok, config_parameters>>

-----------------------------------------------------------------------------
(* The public operations *)

\* fetch_athlete(), fetch_activities(), fetch_activity(act_id), fetch_stream(act_id),
\* fetch_segmentsStarred(), fetch_segments(act_id): enters the decorator's inside_func
CallFetch(op, aid) ==
    /\ op \in IdOps \/ aid = None
    /\ Begin
    /\ call' = [op |-> op, act_id |-> aid, sd |-> FALSE]
    /\ stack' = <<RetryFrame(op, aid)>>
    /\ trace' = <<>>

\* getLastID(setDefault)
CallGetLastID(sd) ==
    /\ Begin
    /\ call' = [op |-> "getLastID", act_id |-> None, sd |-> sd]
    /\ stack' = <<GLFrame(sd)>>
    /\ trace' = <<[ev |-> "glcall", op |-> "getLastID", id |-> None, bearer |-> None,
                   status |-> IF sd THEN 1 ELSE 0, depth |-> 1]>>

\* authenticate()
CallAuthenticate ==
    /\ Begin
    /\ call' = [op |-> "authenticate", act_id |-> None, sd |-> FALSE]
    /\ stack' = <<[GLFrame(FALSE) EXCEPT !.kind = "authenticate", !.op = "authenticate",
                                         !.pc = "post"]>>
    /\ trace' = <<>>

-----------------------------------------------------------------------------
(* retry_request.inside_func and the fetch_* bodies it wraps *)

\* RetryIter with the loop bound off by one: `if i <= retry_count`
RetryIter_OffByOne ==
    /\ Running /\ Top.kind = "retry" /\ Top.pc = "iter"
    /\ stack' = SetTop(IF Top.i <= retry_count
                       THEN [Top EXCEPT !.pc = "func", !.nCall = @ + 1]
                       ELSE [Top EXCEPT !.pc = "return"])
    /\ UNCHANGED <<token, defaultActivity, status, ret, call, validTok, config_parameters, trace,
                   token0, default0, glPre, glFirst, raisedBy, honest, lastResp>>

\* for i in range(1, retry_count+1): if i < retry_count: call func,
\* else: print "Request limit exceeded"; the loop is over
RetryIter ==
    /\ Running /\ Top.kind = "retry" /\ Top.pc = "iter"
    /\ stack' = SetTop(IF Top.i < retry_count
                       THEN [Top EXCEPT !.pc = "func", !.nCall = @ + 1]
                       ELSE [Top EXCEPT !.pc = "return"])
    /\ UNCHANGED <<token, defaultActivity, status, ret, call, validTok, config_parameters, trace,
                   token0, default0, glPre, glFirst, raisedBy, honest, lastResp>>

\* FetchBody resolving with getLastID(setDefault=False): nothing is cached
FetchBody_NoSetDefault ==
    /\ Running /\ Top.kind = "retry" /\ Top.pc = "func"
    /\ IF Top.op \in IdOps /\ ~Truthy(Top.act_id)
       THEN IF Truthy(defaultActivity.id)
            THEN /\ stack' = SetTop([Top EXCEPT !.act = defaultActivity.id, !.pc = "get"])
                 /\ UNCHANGED <<trace, glPre>>
            ELSE /\ stack' = Push([Top EXCEPT !.pc = "await"], GLFrame(FALSE))
                 /\ trace' = Append(trace, Event("glcall", "getLastID", None, None, 1))
                 /\ glPre' = defaultActivity
       ELSE /\ stack' = SetTop([Top EXCEPT !.act = Top.act_id, !.pc = "get"])
            /\ UNCHANGED <<trace, glPre>>
    /\ UNCHANGED <<token, defaultActivity, status, ret, call, validTok, config_parameters,
                   token0, default0, glFirst, raisedBy, honest, lastResp>>

\* FetchBody never looking at the cached default
FetchBody_NoCache ==
    /\ Running /\ Top.kind = "retry" /\ Top.pc = "func"
    /\ IF Top.op \in IdOps /\ ~Truthy(Top.act_id)
       THEN /\ stack' = Push([Top EXCEPT !.pc = "await"], GLFrame(TRUE))
            /\ trace' = Append(trace, Event("glcall", "getLastID", None, None, 1))
            /\ glPre' = defaultActivity
       ELSE /\ stack' = SetTop([Top EXCEPT !.act = Top.act_id, !.pc = "get"])
            /\ UNCHANGED <<trace, glPre>>
    /\ UNCHANGED <<token, defaultActivity, status, ret, call, validTok, config_parameters,
                   token0, default0, glFirst, raisedBy, honest, lastResp>>

\* the head of fetch_activity, fetch_stream, fetch_segments: which identifier
\* the request addresses; the other three operations have no identifier
FetchBody ==
    /\ Running /\ Top.kind = "retry" /\ Top.pc = "func"
    /\ IF Top.op \in IdOps /\ ~Truthy(Top.act_id)
       THEN IF Truthy(defaultActivity.id)
            THEN /\ stack' = SetTop([Top EXCEPT !.act = defaultActivity.id, !.pc = "get"])
                 /\ UNCHANGED <<trace, glPre>>
            ELSE /\ stack' = Push([Top EXCEPT !.pc = "await"], GLFrame(TRUE))
                 /\ trace' = Append(trace, Event("glcall", "getLastID", None, None, 1))
                 /\ glPre' = defaultActivity
       ELSE /\ stack' = SetTop([Top EXCEPT !.act = Top.act_id, !.pc = "get"])
            /\ UNCHANGED <<trace, glPre>>
    /\ UNCHANGED <<token, defaultActivity, status, ret, call, validTok, config_parameters,
                   token0, default0, glFirst, raisedBy, honest, lastResp>>

\* requests.get(url=mod_url, headers=self.headers): the service answers
HttpGet ==
    /\ Running /\ Top.kind = "retry" /\ Top.pc = "get"
    /\ \E r \in ServerResponses(Top.op) :
          /\ stack' = SetTop([Top EXCEPT !.result = r, !.pc = "check"])
          /\ trace' = Append(trace, Event("get", Top.op, mod_url(Top.op, Top.act).id,
                                          headers.Authorization[2], r.status))
          /\ honest' = (honest /\ ((r.status = 401) <=> (headers.Authorization[2] # Some(validTok))))
          /\ lastResp' = r
    /\ UNCHANGED <<token, defaultActivity, status, ret, call, validTok, config_parameters,
                   token0, default0, glPre, glFirst, raisedBy>>

\* requests.get raises: no response (connection error)
HttpGetFails ==
    /\ Running /\ Top.kind = "retry" /\ Top.pc = "get"
    /\ trace' = Append(trace, Event("get", Top.op, mod_url(Top.op, Top.act).id,
                                    headers.Authorization[2], 0))
    /\ honest' = FALSE
    /\ Raise("get")
    /\ UNCHANGED <<token, defaultActivity, call, validTok, config_parameters, token0, default0, glPre, glFirst, lastResp>>

\* RetryCheck retrying on every status that is not 200
RetryCheck_AnyError ==
    /\ Running /\ Top.kind = "retry" /\ Top.pc = "check"
    /\ stack' = SetTop(IF Top.result.status # 200
                       THEN [Top EXCEPT !.pc = "auth", !.n401 = @ + 1]
                       ELSE [Top EXCEPT !.pc = "return"])
    /\ UNCHANGED <<token, defaultActivity, status, ret, call, validTok, config_parameters, trace,
                   token0, default0, glPre, glFirst, raisedBy, honest, lastResp>>

\* if result.status_code == 401: sleep, then the error callback; else: break
RetryCheck ==
    /\ Running /\ Top.kind = "retry" /\ Top.pc = "check"
    /\ stack' = SetTop(IF Top.result.status = 401
                       THEN [Top EXCEPT !.pc = "auth", !.n401 = @ + 1]
                       ELSE [Top EXCEPT !.pc = "return"])
    /\ UNCHANGED <<token, defaultActivity, status, ret, call, validTok, config_parameters, trace,
                   token0, default0, glPre, glFirst, raisedBy, honest, lastResp>>

\* return result
RetryReturn ==
    /\ Running /\ Top.kind = "retry" /\ Top.pc = "return"
    /\ ReturnResp(Top.result)
    /\ UNCHANGED <<token, defaultActivity, call, validTok, config_parameters, trace,
                   token0, default0, glPre, glFirst, raisedBy, honest, lastResp>>

-----------------------------------------------------------------------------
(* authenticate: called by the caller, or as the decorator's error callback *)

AtAuthenticate ==
    /\ Running
    /\ \/ Top.kind = "retry" /\ Top.pc = "auth"
       \/ Top.kind = "authenticate"

\* authenticate storing a rotated refresh token in the credentials
authenticate_RotatesRefreshToken ==
    /\ AtAuthenticate
    /\ \E r \in TokenResponses :
          /\ token' = AccessTokenOf(r)
          /\ trace' = Append(trace, Event("auth", "returned", None, AccessTokenOf(r), r.status))
          /\ honest' = (honest /\ AccessTokenOf(r) = Some(validTok))
    /\ config_parameters' = [config_parameters EXCEPT !.refresh_token = "rotated"]
    /\ IF Top.kind = "retry"
       THEN /\ stack' = SetTop([Top EXCEPT !.pc = "iter", !.i = @ + 1, !.nAuth = @ + 1])
            /\ UNCHANGED <<status, ret>>
       ELSE /\ stack' = <<>>
            /\ status' = "done"
            /\ ret' = NoRet
    /\ UNCHANGED <<defaultActivity, call, validTok, token0, default0, glPre, glFirst, raisedBy, lastResp>>

\* authenticate leaving the attempt counter of the retry loop as it is
authenticate_KeepsAttempt ==
    /\ AtAuthenticate
    /\ \E r \in TokenResponses :
          /\ token' = AccessTokenOf(r)
          /\ trace' = Append(trace, Event("auth", "returned", None, AccessTokenOf(r), r.status))
          /\ honest' = (honest /\ AccessTokenOf(r) = Some(validTok))
    /\ IF Top.kind = "retry"
       THEN /\ stack' = SetTop([Top EXCEPT !.pc = "iter", !.nAuth = @ + 1])
            /\ UNCHANGED <<status, ret>>
       ELSE /\ stack' = <<>>
            /\ status' = "done"
            /\ ret' = NoRet
    /\ UNCHANGED <<defaultActivity, call, validTok, config_parameters, token0, default0, glPre,
                   glFirst, raisedBy, lastResp>>

\* requests.post answers r; self._access_token = response.json().get('access_token');
\* return self
authenticate ==
    /\ AtAuthenticate
    /\ \E r \in TokenResponses :
          /\ token' = AccessTokenOf(r)
          /\ trace' = Append(trace, Event("auth", "returned", None, AccessTokenOf(r), r.status))
          /\ honest' = (honest /\ AccessTokenOf(r) = Some(validTok))
    /\ IF Top.kind = "retry"
       THEN /\ stack' = SetTop([Top EXCEPT !.pc = "iter", !.i = @ + 1, !.nAuth = @ + 1])
            /\ UNCHANGED <<status, ret>>
       ELSE /\ stack' = <<>>
            /\ status' = "done"
            /\ ret' = NoRet
    /\ UNCHANGED <<defaultActivity, call, validTok, config_parameters, token0, default0, glPre, glFirst, raisedBy, lastResp>>

\* requests.post raises: no response of the token endpoint (connection error)
authenticateRaises ==
    /\ AtAuthenticate
    /\ trace' = Append(trace, Event("auth", "raised", None, token, 0))
    /\ honest' = FALSE
    /\ Raise("authenticate")
    /\ UNCHANGED <<token, defaultActivity, call, validTok, config_parameters, token0, default0, glPre, glFirst, lastResp>>

-----------------------------------------------------------------------------
(* getLastID *)

\* data = self.fetch_activities()
GLFetch ==
    /\ Running /\ Top.kind = "getLastID" /\ Top.pc = "fetch"
    /\ stack' = Push([Top EXCEPT !.pc = "await"], RetryFrame("activities", None))
    /\ UNCHANGED <<token, defaultActivity, status, ret, call, validTok, config_parameters, trace,
                   token0, default0, glPre, glFirst, raisedBy, honest, lastResp>>

\* GLJson taking the setDefault branch whatever the flag is
GLJson_AlwaysSets ==
    /\ Running /\ Top.kind = "getLastID" /\ Top.pc = "json"
    /\ stack' = SetTop([Top EXCEPT !.pc = "setId"])
    /\ glFirst' = IF Top.data.kind = "list" /\ Top.data.items # <<>>
                  THEN Some(Head(Top.data.items)) ELSE None
    /\ UNCHANGED <<token, defaultActivity, status, ret, call, validTok, config_parameters, trace,
                   token0, default0, glPre, raisedBy, honest, lastResp>>

\* GLJson fetching the list once more when the fetch came back with 401
GLJson_RefetchesOn401 ==
    /\ Running /\ Top.kind = "getLastID" /\ Top.pc = "json"
    /\ IF Top.data.status = 401
       THEN /\ stack' = SetTop([Top EXCEPT !.pc = "fetch"])
            /\ UNCHANGED glFirst
       ELSE /\ stack' = SetTop([Top EXCEPT !.pc = IF Top.sd THEN "setId" ELSE "ret"])
            /\ glFirst' = IF Top.data.kind = "list" /\ Top.data.items # <<>>
                          THEN Some(Head(Top.data.items)) ELSE None
    /\ UNCHANGED <<token, defaultActivity, status, ret, call, validTok, config_parameters, trace,
                   token0, default0, glPre, raisedBy, honest, lastResp>>

\* data = data.json()
GLJson ==
    /\ Running /\ Top.kind = "getLastID" /\ Top.pc = "json"
    /\ stack' = SetTop([Top EXCEPT !.pc = IF Top.sd THEN "setId" ELSE "ret"])
    /\ glFirst' = IF Top.data.kind = "list" /\ Top.data.items # <<>>
                  THEN Some(Head(Top.data.items)) ELSE None
    /\ UNCHANGED <<token, defaultActivity, status, ret, call, validTok, config_parameters, trace,
                   token0, default0, glPre, raisedBy, honest, lastResp>>

\* GLAssign reading name and start time from the last record, data[-1]
GLAssign_LastRecord(pc, key, field, next) ==
    /\ Running /\ Top.kind = "getLastID" /\ Top.pc = pc
    /\ IF Subscriptable(Top.data)
       THEN /\ defaultActivity' =
                 [defaultActivity EXCEPT ![key] =
                     Some(Top.data.items[IF key = "id" THEN 1 ELSE Len(Top.data.items)][field])]
            /\ stack' = SetTop([Top EXCEPT !.pc = next])
            /\ UNCHANGED <<status, ret, raisedBy>>
       ELSE /\ Raise("getLastID")
            /\ UNCHANGED defaultActivity
    /\ UNCHANGED <<token, call, validTok, config_parameters, trace, token0, default0, glPre, glFirst, honest, lastResp>>

\* self.defaultActivity[key] = data[0].get(field); data[0] raises on an empty
\* list (IndexError) and on an error object (KeyError)
GLAssign(pc, key, field, next) ==
    /\ Running /\ Top.kind = "getLastID" /\ Top.pc = pc
    /\ IF Subscriptable(Top.data)
       THEN /\ defaultActivity' = [defaultActivity EXCEPT ![key] = Some(Top.data.items[1][field])]
            /\ stack' = SetTop([Top EXCEPT !.pc = next])
            /\ UNCHANGED <<status, ret, raisedBy>>
       ELSE /\ Raise("getLastID")
            /\ UNCHANGED defaultActivity
    /\ UNCHANGED <<token, call, validTok, config_parameters, trace, token0, default0, glPre, glFirst, honest, lastResp>>

GLSetId == GLAssign("setId", "id", "id", "setName")
GLSetName == GLAssign("setName", "name", "name", "setStart")
GLSetStart == GLAssign("setStart", "startDateTime", "start_date_local", "ret")

\* return data[0].get('id')
GLReturn ==
    /\ Running /\ Top.kind = "getLastID" /\ Top.pc = "ret"
    /\ IF Subscriptable(Top.data)
       THEN /\ ReturnId(Some(Top.data.items[1].id))
            /\ trace' = Append(trace, Event("glret", "getLastID",
                                            Some(Top.data.items[1].id), None, 0))
            /\ UNCHANGED raisedBy
       ELSE /\ Raise("getLastID")
            /\ UNCHANGED trace
    /\ UNCHANGED <<token, defaultActivity, call, validTok, config_parameters,
                   token0, default0, glPre, glFirst, honest, lastResp>>

-----------------------------------------------------------------------------
(* get_data *)

\* dir(self): the names of the attributes of a StravaDataConnector
DirSelf ==
    {"fetch_" \o op : op \in FetchOps}
    \cup {"authenticate", "get_data", "headers", "read_configs", "getLastID",
          "get_activities_data", "base_url", "config_parameters", "_access_token",
          "defaultActivity"}

\* fetch_type as a caller may pass it: a name of the catalog, or another string
FetchTypes == FetchOps \cup {"nonexistent", "Athlete"}

\* getattr(self, fetchCall): the fetch operation of that name
MethodOf(fetchCall) == CHOOSE op \in FetchOps : "fetch_" \o op = fetchCall

DataFrame(fetch_type, aid) ==
    [GLFrame(FALSE) EXCEPT !.kind = "get_data", !.op = fetch_type, !.act_id = aid,
                           !.pc = "lookup"]

\* get_data(fetch_type, **kwargs)
CallGetData(fetch_type, aid) ==
    /\ fetch_type \in IdOps \/ aid = None
    /\ Begin
    /\ call' = [op |-> "get_data", act_id |-> aid, sd |-> FALSE, name |-> fetch_type]
    /\ stack' = <<DataFrame(fetch_type, aid)>>
    /\ trace' = <<>>

\* GetDataLookup matching the name without regard to case
GetDataLookup_IgnoresCase ==
    /\ Running /\ Top.kind = "get_data" /\ Top.pc = "lookup"
    /\ LET fetchCall == "fetch_" \o (IF Top.op = "Athlete" THEN "athlete" ELSE Top.op) IN
       stack' = IF fetchCall \in DirSelf
                THEN Push([Top EXCEPT !.pc = "await"],
                          RetryFrame(MethodOf(fetchCall), Top.act_id))
                ELSE SetTop([Top EXCEPT !.pc = "ret"])
    /\ UNCHANGED <<token, defaultActivity, status, ret, call, validTok, config_parameters, trace,
                   token0, default0, glPre, glFirst, raisedBy, honest, lastResp>>

\* GetDataLookup calling the fetch operation without the keyword arguments
GetDataLookup_DropsParams ==
    /\ Running /\ Top.kind = "get_data" /\ Top.pc = "lookup"
    /\ LET fetchCall == "fetch_" \o Top.op IN
       stack' = IF fetchCall \in DirSelf
                THEN Push([Top EXCEPT !.pc = "await"],
                          RetryFrame(MethodOf(fetchCall), None))
                ELSE SetTop([Top EXCEPT !.pc = "ret"])
    /\ UNCHANGED <<token, defaultActivity, status, ret, call, validTok, config_parameters, trace,
                   token0, default0, glPre, glFirst, raisedBy, honest, lastResp>>

\* fetchCall = "fetch_" + fetch_type; output = None;
\* if fetchCall in dir(self): output = getattr(self, fetchCall)(**kwargs)
\* else: print the names of the fetch operations
GetDataLookup ==
    /\ Running /\ Top.kind = "get_data" /\ Top.pc = "lookup"
    /\ LET fetchCall == "fetch_" \o Top.op IN
       stack' = IF fetchCall \in DirSelf
                THEN Push([Top EXCEPT !.pc = "await"],
                          RetryFrame(MethodOf(fetchCall), Top.act_id))
                ELSE SetTop([Top EXCEPT !.pc = "ret"])
    /\ UNCHANGED <<token, defaultActivity, status, ret, call, validTok, config_parameters, trace,
                   token0, default0, glPre, glFirst, raisedBy, honest, lastResp>>

\* return output
GetDataReturn ==
    /\ Running /\ Top.kind = "get_data" /\ Top.pc = "ret"
    /\ ReturnResp(Top.data)
    /\ UNCHANGED <<token, defaultActivity, call, validTok, config_parameters, trace,
                   token0, default0, glPre, glFirst, raisedBy, honest, lastResp>>

-----------------------------------------------------------------------------
(* get_activities_data *)

\* *args as a caller may pass them
ArgLists == {<<>>, <<"id">>, <<"type", "name">>}

\* rel_keys = ('start_date_local', 'name', 'id', 'type') if not args else args
rel_keys(args) == IF args = <<>> THEN <<"start_date_local", "name", "id", "type">> ELSE args

Fields(keys) == {keys[k] : k \in 1..Len(keys)}

\* [{k: dic[k] for k in rel_keys} for dic in activities] raises KeyError when a
\* record has no field k, and TypeError when activities is an error object
Projectable(data, keys) ==
    /\ data.kind = "list"
    /\ \A n \in 1..Len(data.items) : Fields(keys) \subseteq DOMAIN data.items[n]

\* activitiesOutput copying every record whole, whatever the requested keys
activitiesOutput_WholeRecord(data, keys) ==
    [n \in 1..Len(data.items) |-> data.items[n]]

activitiesOutput(data, keys) ==
    [n \in 1..Len(data.items) |-> [k \in Fields(keys) |-> data.items[n][k]]]

\* get_activities_data(*args)
CallGetActivitiesData(args) ==
    /\ Begin
    /\ call' = [op |-> "get_activities_data", act_id |-> None, sd |-> FALSE, args |-> args]
    /\ stack' = <<[GLFrame(FALSE) EXCEPT !.kind = "get_activities_data",
                                         !.op = "get_activities_data"]>>
    /\ trace' = <<>>

\* activities = self.fetch_activities()
GADFetch ==
    /\ Running /\ Top.kind = "get_activities_data" /\ Top.pc = "fetch"
    /\ stack' = Push([Top EXCEPT !.pc = "await"], RetryFrame("activities", None))
    /\ UNCHANGED <<token, defaultActivity, status, ret, call, validTok, config_parameters, trace,
                   token0, default0, glPre, glFirst, raisedBy, honest, lastResp>>

\* activities = activities.json()
GADJson ==
    /\ Running /\ Top.kind = "get_activities_data" /\ Top.pc = "json"
    /\ stack' = SetTop([Top EXCEPT !.pc = "project"])
    /\ UNCHANGED <<token, defaultActivity, status, ret, call, validTok, config_parameters, trace,
                   token0, default0, glPre, glFirst, raisedBy, honest, lastResp>>

\* the projection, and return activitiesOutput
GADProject ==
    /\ Running /\ Top.kind = "get_activities_data" /\ Top.pc = "project"
    /\ IF Projectable(Top.data, rel_keys(call.args))
       THEN /\ stack' = <<>>
            /\ status' = "done"
            /\ ret' = [NoRet EXCEPT !.rows = activitiesOutput(Top.data, rel_keys(call.args))]
            /\ UNCHANGED raisedBy
       ELSE Raise("get_activities_data")
    /\ UNCHANGED <<token, defaultActivity, call, validTok, config_parameters, trace,
                   token0, default0, glPre, glFirst, honest, lastResp>>

-----------------------------------------------------------------------------
(* Between two public operations *)

\* the caller has the result (or the exception) of the operation: the session
\* is idle again, with the token and the cache the operation left
Release ==
    /\ status \in {"done", "failed"}
    /\ status' = "idle"
    /\ ret' = NoRet
    /\ call' = [op |-> "none", act_id |-> None, sd |-> FALSE]
    /\ trace' = <<>>
    /\ token0' = token
    /\ default0' = defaultActivity
    /\ glPre' = defaultActivity
    /\ glFirst' = None
    /\ raisedBy' = "none"
    /\ honest' = TRUE
    /\ lastResp' = NoResp
    /\ UNCHANGED <<token, config_parameters, defaultActivity, stack, validTok>>

-----------------------------------------------------------------------------
(* The remote service *)

\* the access token the service accepts expires and is replaced, between two
\* operations of the session
Expire ==
    /\ status = "idle"
    /\ \E t \in Tokens \ {validTok} : validTok' = t
    /\ UNCHANGED <<token, config_parameters, defaultActivity, stack, status, ret, call, trace,
                   token0, default0, glPre, glFirst, raisedBy, honest, lastResp>>

-----------------------------------------------------------------------------

Next ==
    \/ \E op \in FetchOps, aid \in CallerIds : CallFetch(op, aid)
    \/ \E sd \in BOOLEAN : CallGetLastID(sd)
    \/ CallAuthenticate
    \/ \E fetch_type \in FetchTypes, aid \in CallerIds : CallGetData(fetch_type, aid)
    \/ \E args \in ArgLists : CallGetActivitiesData(args)
    \/ RetryIter
    \/ FetchBody
    \/ HttpGet
    \/ HttpGetFails
    \/ RetryCheck
    \/ RetryReturn
    \/ authenticate
    \/ authenticateRaises
    \/ GLFetch
    \/ GLJson
    \/ GLSetId
    \/ GLSetName
    \/ GLSetStart
    \/ GLReturn
    \/ GetDataLookup
    \/ GetDataReturn
    \/ GADFetch
    \/ GADJson
    \/ GADProject
    \/ Release
    \/ Expire

Spec == Init /\ [][Next]_vars

\* a step of the running public operation: the session is single threaded and
\* blocking, the running operation is the only thing that can take a step
Step ==
    \/ RetryIter
    \/ FetchBody
    \/ HttpGet
    \/ HttpGetFails
    \/ RetryCheck
    \/ RetryReturn
    \/ authenticate
    \/ authenticateRaises
    \/ GLFetch
    \/ GLJson
    \/ GLSetId
    \/ GLSetName
    \/ GLSetStart
    \/ GLReturn
    \/ GetDataLookup
    \/ GetDataReturn
    \/ GADFetch
    \/ GADJson
    \/ GADProject

\* the interpreter keeps executing the running operation, and every HTTP call
\* and every token exchange comes back (with a response or an exception)
SpecLive == Spec /\ WF_vars(Step)

-----------------------------------------------------------------------------
(* Reading the history of the running / last public operation *)

Finished == status \in {"done", "failed"}
Events(e) == {k \in 1..Len(trace) : trace[k].ev = e}
Gets == Events("get")
Auths == Events("auth")
GLCalls == Events("glcall")
\* the requests of the operation itself, and those of a nested fetch_activities
OwnGets == {k \in Gets : trace[k].depth = 1}
\* a request that repeats an earlier request of the same wrapper invocation
Replays == {k \in Gets : \E j \in Gets : j < k /\ trace[j].depth = trace[k].depth
                                          /\ trace[j].op = trace[k].op}
RetryFrames == {k \in 1..Depth : stack[k].kind = "retry"}

-----------------------------------------------------------------------------
(* C1 *)

\* the two halves of one 401: the wrapper that received it has made one
\* authenticate() call for every 401 it has seen, the one for the latest 401
\* pending while it is about to call
PairedIn(f) ==
    /\ f.n401 = f.nAuth + (IF f.pc = "auth" THEN 1 ELSE 0)
    /\ f.n401 <= f.nCall
\* in the history: a 401 response is directly followed by the authenticate()
\* call it triggers, and every authenticate() call of a fetch operation
\* directly follows a 401 response
PairedInTrace ==
    /\ \A k \in Gets : trace[k].status = 401 =>
          IF k < Len(trace)
          THEN trace[k + 1].ev = "auth" /\ trace[k + 1].depth = trace[k].depth
          ELSE Running /\ Top.kind = "retry" /\ Top.pc \in {"check", "auth"}
    /\ \A k \in Auths : k > 1 /\ trace[k - 1].ev = "get" /\ trace[k - 1].status = 401

-----------------------------------------------------------------------------
(* C2 *)

\* every execution of the wrapped call by the operation's own wrapper returned
\* a 401 response: no request of its own was answered otherwise, and nothing
\* raised inside the wrapped call
AllOwn401 ==
    /\ \A k \in OwnGets : trace[k].status = 401
    /\ status = "failed" =>
          raisedBy = "authenticate" /\ trace[Len(trace)].depth = 1

\* C2 as stated: when the wrapped call always answers 401, the wrapper runs it
\* exactly retry_count - 1 times and returns the last response, status 401,
\* as a normal return value, without raising
C2_ExhaustedReturnsLast401 ==
    (Finished /\ call.op \in FetchOps /\ AllOwn401) =>
        /\ status = "done"
        /\ Cardinality(OwnGets) = retry_count - 1
        /\ ret.resp.status = 401

-----------------------------------------------------------------------------
(* C3 *)

AtCheckNot401 ==
    Running /\ Top.kind = "retry" /\ Top.pc = "check" /\ Top.result.status # 401
AtReturn == Running /\ Top.kind = "retry" /\ Top.pc = "return"

\* C3: once the wrapped call has returned a response whose status is not 401
\* the wrapper breaks out of its loop and returns exactly that response: its
\* next two steps make no request and no authenticate() call and leave the
\* token as it is
C3_Non401ReturnedAtOnce ==
    /\ [][AtCheckNot401 =>
            /\ Len(stack') = Depth
            /\ stack'[Depth] = [Top EXCEPT !.pc = "return"]
            /\ UNCHANGED <<token, trace>>]_vars
    /\ [][AtReturn =>
            /\ UNCHANGED <<token, trace>>
            /\ IF Depth = 1
               THEN status' = "done" /\ ret'.resp = Top.result
               ELSE Len(stack') = Depth - 1 /\ stack'[Depth - 1].data = Top.result]_vars

\* the first request of a fetch operation was answered 500 and the operation
\* has returned that response
C3_Witness ==
    /\ status = "done" /\ call.op \in FetchOps
    /\ Len(trace) = 1 /\ trace[1].ev = "get" /\ trace[1].status = 500
    /\ ret.resp.status = 500
    /\ token = token0

-----------------------------------------------------------------------------
(* C4 *)

\* the operation was called with an absent or stale token, and the service
\* and the token endpoint have been honest: 401 exactly for a bearer value
\* that is not the valid token, authenticate() installing the valid token
HonestStale ==
    /\ Finished /\ call.op \in FetchOps
    /\ honest
    /\ token0 # Some(validTok)

\* C4 as stated: under an honest service every fetch operation called with an
\* absent or stale token returns a response that is not 401, after exactly
\* one re-authentication and one replay of the request
C4_RecoversAndReturns ==
    HonestStale =>
        /\ status = "done"
        /\ ret.resp.status # 401
        /\ Cardinality(Auths) = 1
        /\ Cardinality(Replays) = 1

\* C4 amended: such an operation makes exactly one re-authentication and one
\* replay, and then returns a response that is not 401, unless it had to
\* resolve the identifier through getLastID and the replayed activities list
\* request was not answered with a list that has a first record: then
\* getLastID raises and the operation fails
C4_RecoversOrResolutionFails ==
    HonestStale =>
        /\ Cardinality(Auths) = 1
        /\ Cardinality(Replays) = 1
        /\ trace[1].ev = "glcall" \/ trace[1].status = 401
        /\ trace[Len(trace)].bearer = Some(validTok)
        /\ status = "done" => ret.resp.status # 401 /\ token = Some(validTok)
        /\ status = "failed" =>
              /\ raisedBy = "getLastID"
              /\ call.op \in IdOps /\ ~Truthy(call.act_id) /\ ~Truthy(default0.id)
              /\ glFirst = None

\* a fetch operation called with a stale token has recovered and returned 200
C4_Witness ==
    /\ HonestStale /\ token0 # None
    /\ status = "done" /\ ret.resp.status = 200
    /\ Cardinality(Auths) = 1

-----------------------------------------------------------------------------
(* C5 *)

NoIdNoDefault == call.op \in IdOps /\ call.act_id = None /\ default0.id = None
GLReturns == Events("glret")

-----------------------------------------------------------------------------
(* C6 *)

\* C6 as stated: when the caller supplies an identifier, every request of the
\* operation addresses exactly that identifier, the activities list is not
\* requested and the cached default is left as it was
C6_ExplicitIdUsed ==
    (call.op \in IdOps /\ call.act_id # None) =>
        /\ \A k \in Gets : trace[k].op = call.op /\ trace[k].id = call.act_id
        /\ GLCalls = {}
        /\ defaultActivity = default0

-----------------------------------------------------------------------------
(* C7 *)

NoIdCached == call.op \in IdOps /\ call.act_id = None /\ default0.id # None

-----------------------------------------------------------------------------
(* C8 *)

\* getLastID(setDefault=True) was called, by the caller or by a fetch operation
CalledSetDefault == \E k \in GLCalls : trace[k].status = 1

\* C8: once the public operation that called getLastID(True) has returned or
\* failed, the cached triple is entirely the value it had when getLastID was
\* entered, or entirely the id, name and start_date_local of the first record
\* of the list that call parsed; when getLastID returned it is the latter
C8_TripleWrittenWhole ==
    (Finished /\ CalledSetDefault) =>
        /\ \/ defaultActivity = glPre
           \/ glFirst # None /\ defaultActivity = Triple(glFirst[1])
        /\ GLReturns # {} => glFirst # None /\ defaultActivity = Triple(glFirst[1])
        /\ GLReturns = {} => defaultActivity = glPre

\* getLastID(True) has replaced a cached triple by that of another record
C8_Witness ==
    /\ status = "done" /\ call.op = "getLastID" /\ call.sd
    /\ glPre # NoneTriple
    /\ defaultActivity.id # glPre.id
    /\ defaultActivity = Triple(glFirst[1])

-----------------------------------------------------------------------------
(* C9 *)

\* C9: getLastID returns the id of the first record of the list it fetched,
\* whatever setDefault is; with setDefault=True the cached triple becomes the
\* id, name and start_date_local of that record, with setDefault=False it is
\* left as it was
C9_ReturnsFirstId ==
    (status = "done" /\ call.op = "getLastID") =>
        /\ glFirst # None
        /\ ret.id = Some(glFirst[1].id)
        /\ defaultActivity = IF call.sd THEN Triple(glFirst[1]) ELSE default0

\* getLastID(False) has returned an id that is not the cached one
C9_Witness ==
    /\ status = "done" /\ call.op = "getLastID" /\ ~call.sd
    /\ default0 # NoneTriple
    /\ ret.id # None /\ ret.id # default0.id
    /\ defaultActivity = default0

-----------------------------------------------------------------------------
(* C10 *)

\* the token exchange of the running authenticate() did not yield a token
ExchangeFailed ==
    trace[Len(trace)].op = "raised" \/ trace[Len(trace)].bearer = None

\* C10 as stated: authenticate() never raises; when the token exchange fails
\* (connection error, non-2xx response, body without access_token) it returns
\* with the access token None
C10_AuthenticateNeverRaises ==
    (Finished /\ call.op = "authenticate") =>
        /\ status = "done"
        /\ ExchangeFailed => token = None

-----------------------------------------------------------------------------
(* C11 *)

UnknownName == call.op = "get_data" /\ call.name \notin FetchOps

\* C11: get_data with a name that is not one of the six catalog names returns
\* None without raising, issues no request and no authenticate() call, and
\* leaves the access token and the cached default as they were
C11_UnknownNameReturnsNone ==
    UnknownName =>
        /\ trace = <<>>
        /\ token = token0
        /\ defaultActivity = default0
        /\ status # "failed"
        /\ \A k \in 1..Depth : stack[k].kind = "get_data"
        /\ status = "done" => ret = NoRet

\* get_data("Athlete") has returned
C11_Witness == UnknownName /\ status = "done" /\ call.name = "Athlete" /\ ret = NoRet

-----------------------------------------------------------------------------
(* C12 *)

\* What a direct call of a fetch operation does, as a function of the
\* operation, its identifier argument, the session it starts from and the
\* answers of the remote side.  The answers are read from the history: the
\* status of every response, the token of every exchange, the first record
\* of the list getLastID parsed.  RunWrapper follows inside_func from attempt
\* a on, at stack depth d, from the position s.k of the history with the token
\* s.tok and the cache s.cache; it checks every event the history holds
\* against the request or call the code makes next, and yields how the
\* invocation ends: out is "ret" when it returns, else what raised.
Outcome(ok, k, tok, cache, out, id) ==
    [ok |-> ok, k |-> k, tok |-> tok, cache |-> cache, out |-> out, id |-> id]
Mismatch(s) == Outcome(FALSE, s.k, s.tok, s.cache, "none", None)
IsEvent(k, ev, d) == k <= Len(trace) /\ trace[k].ev = ev /\ trace[k].depth = d

RECURSIVE RunWrapper(_, _, _, _, _)
RECURSIVE ResolveId(_, _, _, _)

\* the head of the wrapped fetch operation: the identifier the request addresses
ResolveId(op, aid, d, s) ==
    IF op \notin IdOps THEN Outcome(TRUE, s.k, s.tok, s.cache, "go", None)
    ELSE IF Truthy(aid) THEN Outcome(TRUE, s.k, s.tok, s.cache, "go", aid)
    ELSE IF Truthy(s.cache.id) THEN Outcome(TRUE, s.k, s.tok, s.cache, "go", s.cache.id)
    ELSE IF ~(IsEvent(s.k, "glcall", d) /\ trace[s.k].status = 1) THEN Mismatch(s)
    ELSE LET n == RunWrapper("activities", None, d + 2, 1, [s EXCEPT !.k = @ + 1]) IN
         IF ~n.ok \/ n.out # "ret" THEN n
         ELSE IF glFirst = None THEN Outcome(TRUE, n.k, n.tok, n.cache, "getLastID", None)
         ELSE IF /\ IsEvent(n.k, "glret", d + 1)
                 /\ trace[n.k].id = Some(glFirst[1].id)
                 /\ trace[n.k - 1].ev = "get" /\ trace[n.k - 1].status = 200
              THEN Outcome(TRUE, n.k + 1, n.tok, Triple(glFirst[1]), "go", Some(glFirst[1].id))
              ELSE Mismatch(n)

\* the loop of inside_func from attempt a on
RunWrapper(op, aid, d, a, s) ==
    IF a >= retry_count THEN Outcome(TRUE, s.k, s.tok, s.cache, "ret", None)
    ELSE LET r == ResolveId(op, aid, d, s) IN
         IF ~r.ok \/ r.out # "go" THEN r
         ELSE IF ~(/\ IsEvent(r.k, "get", d)
                   /\ trace[r.k].op = op /\ trace[r.k].id = r.id
                   /\ trace[r.k].bearer = r.tok)
              THEN Mismatch(r)
         ELSE IF trace[r.k].status = 0
              THEN Outcome(TRUE, r.k + 1, r.tok, r.cache, "get", None)
         ELSE IF trace[r.k].status # 401
              THEN Outcome(TRUE, r.k + 1, r.tok, r.cache, "ret", None)
         ELSE IF ~IsEvent(r.k + 1, "auth", d) THEN Mismatch(r)
         ELSE IF trace[r.k + 1].op = "raised"
              THEN Outcome(TRUE, r.k + 2, r.tok, r.cache, "authenticate", None)
         ELSE RunWrapper(op, aid, d, a + 1,
                         [k |-> r.k + 2, tok |-> trace[r.k + 1].bearer, cache |-> r.cache])

\* a fetch operation was called, directly or by its catalog name through
\* get_data, and the call is over
Dispatched == call.op = "get_data" /\ call.name \in FetchOps
Direct == call.op \in FetchOps
FetchOperation == IF Dispatched THEN call.name ELSE call.op
WrapperDepth == IF Dispatched THEN 2 ELSE 1
DirectRun ==
    RunWrapper(FetchOperation, call.act_id, WrapperDepth, 1,
               [k |-> 1, tok |-> token0, cache |-> default0])

\* C12: for every catalog name and identifier argument, from the same session
\* state and against the same answers of the remote side, get_data(name,
\* act_id) and the direct call of the fetch operation make the same sequence
\* of requests and authenticate() calls, return the same response or raise
\* the same error, and leave the same token and cached triple: both are the
\* run DirectRun computes from the operation, the argument, the session and
\* the answers
C12_GetDataIsDirectCall ==
    Finished /\ (Dispatched \/ Direct) =>
        /\ DirectRun.ok
        /\ DirectRun.k = Len(trace) + 1
        /\ token = DirectRun.tok
        /\ defaultActivity = DirectRun.cache
        /\ IF DirectRun.out = "ret"
           THEN /\ status = "done"
                /\ ret = [NoRet EXCEPT !.resp = lastResp]
                /\ trace[Len(trace)].depth = WrapperDepth
           ELSE /\ status = "failed"
                /\ raisedBy = DirectRun.out
                /\ ret = NoRet

\* get_data("activity"|"stream"|"segments") without identifier on a session
\* without default has resolved the identifier, re-authenticated and returned
C12_Witness ==
    /\ Dispatched /\ status = "done"
    /\ call.name \in IdOps /\ call.act_id = None /\ default0.id = None
    /\ Cardinality(Auths) = retry_count
    /\ defaultActivity.id # None
    /\ ret.resp.status = 401

\* get_data with an explicit identifier has returned what the service answered
C12_WitnessExplicit ==
    /\ Dispatched /\ status = "done"
    /\ call.name \in IdOps /\ Truthy(call.act_id) /\ Truthy(default0.id)
    /\ call.act_id # default0.id
    /\ ret.resp.status = 200

-----------------------------------------------------------------------------
(* C13 *)

\* a step of getLastID(setDefault=True) that assigns one entry of the cache
AtSetDefault ==
    /\ Running /\ Top.kind = "getLastID" /\ Top.sd
    /\ Top.pc \in {"setId", "setName", "setStart"}

\* C13: in every step of every sequence of public operations the access token
\* changes only if the step is a step of authenticate(), the cached triple
\* changes only if the step is an assignment of getLastID(setDefault=True),
\* and the credentials do not change
C13_FrameOfTokenAndCache ==
    [][ /\ token' # token => AtAuthenticate
        /\ defaultActivity' # defaultActivity => AtSetDefault
        /\ config_parameters' = config_parameters ]_vars

\* an operation that has changed the token and the cached triple, after
\* requests, a dispatch through get_data and a nested getLastID
C13_Witness ==
    /\ status = "done" /\ call.op = "get_data"
    /\ token # token0 /\ defaultActivity # default0
    /\ Gets # {} /\ GLCalls # {}
    /\ config_parameters \in Credentials

-----------------------------------------------------------------------------
(* C14 *)

\* get_activities_data ran to its projection over a fetched list of records:
\* neither the request nor a re-authentication raised, the service answered
\* the last request with a list
ProjectedList ==
    /\ call.op = "get_activities_data" /\ Finished
    /\ raisedBy \notin {"get", "authenticate"}
    /\ lastResp.kind = "list"

\* the field names the caller asked for
Requested ==
    IF call.args = <<>> THEN {"start_date_local", "name", "id", "type"}
    ELSE {call.args[k] : k \in 1..Len(call.args)}

\* C14: get_activities_data returns one mapping per record of the fetched
\* list, in the order of the list, each with exactly the requested field names
\* (the four default names when called without arguments) and the record's
\* values; if a record lacks a requested field the call fails with the
\* missing-field error and returns nothing
C14_ProjectsRequestedFields ==
    ProjectedList =>
        LET items == lastResp.items IN
        IF \A n \in 1..Len(items) : Requested \subseteq DOMAIN items[n]
        THEN /\ status = "done"
             /\ Len(ret.rows) = Len(items)
             /\ \A n \in 1..Len(items) :
                   /\ DOMAIN ret.rows[n] = Requested
                   /\ \A k \in Requested : ret.rows[n][k] = items[n][k]
        ELSE /\ status = "failed"
             /\ raisedBy = "get_activities_data"
             /\ ret = NoRet

\* two records projected on two of their four fields, in the order of the list
C14_Witness ==
    /\ ProjectedList /\ status = "done"
    /\ call.args = <<"type", "name">>
    /\ Len(ret.rows) = 2 /\ ret.rows[1] # ret.rows[2]
    /\ lastResp.items[1].id > lastResp.items[2].id
    /\ DOMAIN ret.rows[1] # DOMAIN lastResp.items[1]

\* a record without the field type fails the call made without arguments
C14_MissingFieldFails ==
    /\ ProjectedList /\ status = "failed" /\ call.args = <<>>
    /\ \E n \in 1..Len(lastResp.items) : "type" \notin DOMAIN lastResp.items[n]

-----------------------------------------------------------------------------
(* C15 *)

\* the token the session held when event k of the history happened: the one
\* stored by the latest authenticate() call that returned before k, the token
\* of the call of the operation if there is none
StoredBefore(k) == {j \in Auths : j < k /\ trace[j].op = "returned"}
TokenAt(k) ==
    IF StoredBefore(k) = {} THEN token0
    ELSE trace[CHOOSE j \in StoredBefore(k) : \A i \in StoredBefore(k) : i <= j].bearer

\* C15: every GET of every operation carries as bearer value the token the
\* session holds when the request is issued; the replay after an
\* authenticate() call of the retry loop carries the token that call stored
C15_BearerIsCurrentToken ==
    /\ \A k \in Gets : trace[k].bearer = TokenAt(k)
    /\ \A k \in Gets : k > 1 /\ trace[k - 1].ev = "auth" =>
          /\ trace[k - 1].op = "returned"
          /\ trace[k].bearer = trace[k - 1].bearer
    /\ Running /\ Top.kind = "retry" /\ Top.pc = "get" =>
          headers.Authorization[2] = token

\* a replay whose bearer value is the token the re-authentication stored, and
\* not the token of the failed attempt
C15_Witness ==
    /\ status = "done"
    /\ \E k \in Gets : /\ k > 2 /\ trace[k - 1].ev = "auth" /\ trace[k - 2].ev = "get"
                       /\ trace[k].bearer = token
                       /\ trace[k].bearer # trace[k - 2].bearer
                       /\ trace[k - 2].bearer = token0

-----------------------------------------------------------------------------
(* C16 *)

\* the authenticate() calls the retry wrapper made on a 401 response
Triggered == {k \in Auths : k > 1 /\ trace[k - 1].ev = "get" /\ trace[k - 1].status = 401}
\* the wrapper invocation that made call k is the frame at the depth of the
\* event; it has not returned yet
InvocationOpen(k) ==
    Running /\ Depth >= trace[k].depth /\ stack[trace[k].depth].kind = "retry"
\* the requests the same invocation issued before / after event k
AttemptsBefore(k) == {j \in Gets : j < k /\ trace[j].depth = trace[k].depth}
AttemptsAfter(k) == {j \in Gets : j > k /\ trace[j].depth = trace[k].depth}

\* C16 as stated, for the authenticate() calls that return: every one of them
\* is followed, before the invocation of the wrapper returns, by a replay of
\* the wrapped request with the token it stored
C16_EveryReauthReplayed ==
    \A k \in Triggered : trace[k].op = "returned" =>
        \/ InvocationOpen(k)
        \/ \E j \in AttemptsAfter(k) : trace[j].bearer = trace[k].bearer

\* C16 amended: the authenticate() call triggered by the 401 response of an
\* attempt before the last one (attempt retry_count - 1) is directly followed
\* by a replay of the same request with the token it stored; the call
\* triggered by the 401 response of the last attempt is followed by no
\* request of the invocation, which returns that 401 response; a call that
\* raises ends the invocation and the operation with no replay
C16_ReauthReplayedButLast ==
    \A k \in Triggered :
        /\ trace[k].depth = trace[k - 1].depth
        /\ Cardinality(AttemptsBefore(k)) <= retry_count - 1
        /\ IF trace[k].op = "raised"
           THEN k = Len(trace) /\ status = "failed" /\ raisedBy = "authenticate"
           ELSE IF Cardinality(AttemptsBefore(k)) < retry_count - 1
           THEN IF k = Len(trace)
                THEN /\ InvocationOpen(k)
                     /\ stack[trace[k].depth].pc \in {"iter", "func", "get"}
                     /\ Depth = trace[k].depth
                ELSE /\ trace[k + 1].ev = "get"
                     /\ trace[k + 1].depth = trace[k].depth
                     /\ trace[k + 1].op = trace[k - 1].op
                     /\ trace[k + 1].id = trace[k - 1].id
                     /\ trace[k + 1].bearer = trace[k].bearer
           ELSE /\ AttemptsAfter(k) = {}
                /\ InvocationOpen(k) =>
                      /\ stack[trace[k].depth].pc \in {"iter", "return"}
                      /\ stack[trace[k].depth].result.status = 401
                /\ status = "done" /\ trace[k].depth = 1 => ret.resp.status = 401

\* a fetch operation has returned the 401 response of its last attempt after
\* a second authenticate() call whose token no request of it carried
C16_Witness ==
    /\ status = "done" /\ call.op \in FetchOps /\ ret.resp.status = 401
    /\ Cardinality(Triggered) = retry_count - 1
    /\ Len(trace) \in Triggered /\ trace[Len(trace)].op = "returned"
    /\ token = trace[Len(trace)].bearer
    /\ \A j \in Gets : trace[j].bearer # token

-----------------------------------------------------------------------------
(* C17 *)

\* the requests of the nested fetch_activities
ListGets == {k \in Gets : trace[k].op = "activities"}

\* the operation had to resolve the identifier, the nested fetch_activities
\* returned to getLastID (no request and no token exchange raised), and what
\* it returned is not a list with a first record
ResolutionFailed ==
    /\ call.op \in IdOps /\ Finished
    /\ GLCalls # {}
    /\ raisedBy \notin {"get", "authenticate"}
    /\ glFirst = None

\* C17: when fetch_activity, fetch_stream or fetch_segments resolves the
\* default identifier and the nested list fetch yields no usable list (its
\* budget ended on 401, another error, an empty list), the operation fails
\* with the error raised in getLastID, no detail/stream/segment request is
\* issued, getLastID does not fetch the list again (one getLastID call, at
\* most retry_count - 1 list requests) and the cached triple is as it was
C17_ResolutionFailurePropagates ==
    call.op \in IdOps =>
        /\ Cardinality(GLCalls) <= 1
        /\ Cardinality(ListGets) <= retry_count - 1
        /\ ResolutionFailed =>
              /\ status = "failed" /\ raisedBy = "getLastID" /\ ret = NoRet
              /\ Gets = ListGets
              /\ lastResp.status = 401 => Cardinality(ListGets) = retry_count - 1
              /\ defaultActivity = default0

\* the nested list fetch ended its budget on a 401 response and the
\* operation failed
C17_Witness ==
    /\ ResolutionFailed /\ status = "failed"
    /\ Cardinality(ListGets) = retry_count - 1
    /\ \A k \in ListGets : trace[k].status = 401

\* the nested list fetch returned an empty list and the operation failed
C17_EmptyListFails ==
    /\ ResolutionFailed /\ status = "failed"
    /\ lastResp = Resp(200, "list", <<>>)

-----------------------------------------------------------------------------
(* C19 *)

\* the requests of the operation's own retry loop: the detail, stream or
\* segments requests
DetailGets == {k \in Gets : trace[k].op = call.op}

-----------------------------------------------------------------------------
(* C18 *)

\* an upper bound of the number of steps a frame has left, frames above it
\* not counted: the variant of the retry loop and of the straight-line code
\* around it
ListFetchRank == 5 * (retry_count - 1) + 2
GetLastIDRank == ListFetchRank + 7
FuncRank(op) == 4 + (IF op \in IdOps THEN GetLastIDRank + 1 ELSE 0)
AttemptRank(op) == FuncRank(op) + 1
FrameRank(f) ==
    CASE f.kind = "retry" ->
            IF f.pc = "return" THEN 1
            ELSE IF f.i >= retry_count THEN 2
            ELSE (retry_count - 1 - f.i) * AttemptRank(f.op) + 2
                 + (CASE f.pc = "iter" -> AttemptRank(f.op)
                      [] f.pc = "func" -> FuncRank(f.op)
                      [] f.pc = "await" -> 4
                      [] f.pc = "get" -> 3
                      [] f.pc = "check" -> 2
                      [] f.pc = "auth" -> 1)
      [] f.kind = "getLastID" ->
            (CASE f.pc = "fetch" -> GetLastIDRank
               [] f.pc = "await" -> 6
               [] f.pc = "json" -> 5
               [] f.pc = "setId" -> 4
               [] f.pc = "setName" -> 3
               [] f.pc = "setStart" -> 2
               [] f.pc = "ret" -> 1)
      [] f.kind = "authenticate" -> 1
      [] f.kind = "get_data" ->
            (CASE f.pc = "lookup" -> 2 * AttemptRank("activity") + 6
               [] f.pc = "await" -> 2
               [] f.pc = "ret" -> 1)
      [] f.kind = "get_activities_data" ->
            (CASE f.pc = "fetch" -> ListFetchRank + 5
               [] f.pc = "await" -> 3
               [] f.pc = "json" -> 2
               [] f.pc = "project" -> 1)

RECURSIVE RankUpTo(_)
RankUpTo(n) == IF n = 0 THEN 0 ELSE FrameRank(stack[n]) + RankUpTo(n - 1)
Rank == RankUpTo(Depth)

\* C18: every invocation of a public operation eventually returns or fails,
\* whatever the service and the token endpoint answer: a running operation
\* can always take a step, every step that leaves it running decreases Rank,
\* a natural number, and so the operation is over after at most Rank steps
C18_EveryOperationEnds ==
    /\ [](status = "running" => Depth > 0 /\ Rank > 0 /\ ENABLED Step)
    /\ [][status = "running" /\ status' = "running" => Rank' < Rank]_vars
    /\ (status = "running") ~> Finished

\* fetch_activity, fetch_stream or fetch_segments has ended after the longest
\* run there is: a nested list fetch with a re-authentication, and 401 on
\* every request of its own
C18_Witness ==
    /\ status = "done" /\ call.op \in IdOps
    /\ Cardinality(Auths) = retry_count
    /\ Cardinality(Gets) = retry_count + 1
    /\ ret.resp.status = 401

====
